---- MODULE Spec2Model ----
(***************************************************************************)
(* Amortized multi-octave 2D noise (CInfiniteAmortizedNoise2D and its      *)
(* terrain subclass CTerrainGenerator) and the exponential gradient-       *)
(* magnitude hash (ExponentialHash.cpp, Random.cpp).                       *)
(*                                                                         *)
(* Numbers.  A C float is modelled by an exact rational <<num, den>> in    *)
(* lowest terms with den > 0: float arithmetic (+, -, *, /) is taken       *)
(* exact.  The one rounding that is modelled is the conversion of an       *)
(* integer to float and the float additions of the hash functions, which   *)
(* keep MantBits significant bits (24 in the code, where hashes are 32     *)
(* bits wide; the model keeps the significand narrower than the hash word, *)
(* as the code does).                                                      *)
(***************************************************************************)
EXTENDS Integers, Sequences, FiniteSets, TLC

\* ------------------------------------------------------------------ bounds
HashBits == 4       \* width of a hash value (the code: 32-bit unsigned int)
MantBits == 3       \* significand bits of a float (the code: 24)
RandBits == 4       \* RAND_MAX = 2^RandBits - 1 (the code: 31 or 15)
SeedBits == 20      \* width of a seed (the code: 32-bit unsigned int)

\* ---------------------------------------------------------------- integers
RECURSIVE Pow2(_)
Pow2(e) == IF e <= 0 THEN 1 ELSE 2 * Pow2(e - 1)

RECURSIVE Gcd(_, _)
Gcd(a, b) == IF b = 0 THEN a ELSE Gcd(b, a % b)

Abs(a) == IF a < 0 THEN -a ELSE a

RECURSIVE BitLen(_)
BitLen(x) == IF x <= 0 THEN 0 ELSE 1 + BitLen(x \div 2)

Div2Keep(m) == m

\* n / 2 of C ints: the quotient is truncated toward zero.
Div2(m) == IF m >= 0 THEN m \div 2 ELSE -((-m) \div 2)

\* --------------------------------------------------------------- rationals
Norm(a, b) ==
    LET g == Gcd(Abs(a), Abs(b))
        s == IF b < 0 THEN -1 ELSE 1
    IN  IF a = 0 THEN <<0, 1>> ELSE <<s * (a \div g), s * (b \div g)>>

RInt(k) == <<k, 1>>
Zero == RInt(0)
One == RInt(1)
Two == RInt(2)
Half == <<1, 2>>
RNeg(p) == <<-p[1], p[2]>>

RAdd(p, q) ==
    LET g == Gcd(p[2], q[2])
        l == (p[2] \div g) * q[2]
    IN  Norm(p[1] * (l \div p[2]) + q[1] * (l \div q[2]), l)

RSub(p, q) == RAdd(p, RNeg(q))

RMul(p, q) ==
    LET g1 == Gcd(Abs(p[1]), q[2])
        g2 == Gcd(Abs(q[1]), p[2])
    IN  IF p[1] = 0 \/ q[1] = 0 THEN Zero
        ELSE <<(p[1] \div g1) * (q[1] \div g2), (p[2] \div g2) * (q[2] \div g1)>>

\* q # 0
RDiv(p, q) == RMul(p, IF q[1] < 0 THEN <<-q[2], -q[1]>> ELSE <<q[2], q[1]>>)

RLt(p, q) == p[1] * q[2] < q[1] * p[2]
RLe(p, q) == p[1] * q[2] <= q[1] * p[2]
RMin(p, q) == IF RLt(q, p) THEN q ELSE p
RMax(p, q) == IF RLt(p, q) THEN q ELSE p

\* ------------------------------------------------------------------ floats
\* (float)x for an integer x >= 0: round to nearest, ties to even, keeping
\* MantBits significant bits.
ToFloat(x) ==
    LET bits == BitLen(x)
        sh   == bits - MantBits
        q    == x \div Pow2(sh)
        rem  == x % Pow2(sh)
        half == Pow2(sh - 1)
    IN  IF bits <= MantBits THEN x
        ELSE IF rem > half \/ (rem = half /\ q % 2 = 1) THEN (q + 1) * Pow2(sh)
        ELSE q * Pow2(sh)

\* log(w/2) in units of log 2, for an integer w >= 2 (w/2 is the float
\* 0.5f*x + 1.0f): exact at the powers of two, in particular log(1) = 0, and
\* linear in the mantissa between them.  The unit cancels in scale * log(..).
Log(w) ==
    LET e == BitLen(w) - 1
    IN  RSub(RAdd(RInt(e), <<w - Pow2(e), Pow2(e)>>), One)

\* ---------------------------------------------------- ExponentialHash.cpp
MaxHash == Pow2(HashBits) - 1

clipSwapped(x, a, b) == RMax(RMin(x, a), b)

clip(x, a, b) == RMin(RMax(x, a), b)

UniformHash(x, max) ==
    Norm(ToFloat(ToFloat(x) + 1), ToFloat(ToFloat(max) + 2))

\* ExpHash(x, max): scale = 1/log(0.5f*((float)max + 2.0f)).
ExpHash1(x, max) ==
    LET scale == RDiv(One, Log(ToFloat(ToFloat(max) + 2)))
    IN  RAdd(RMul(RNeg(scale), Log(ToFloat(ToFloat(x) + 2))), One)

ExpHash(x, y, m, omega) ==
    LET w == clip(omega, Zero, One)
    IN  IF RLt(UniformHash(y, m), w) THEN UniformHash(x, m) ELSE ExpHash1(x, m)

\* ------------------------------------------------------------- Random.cpp
RAND_MAX == Pow2(RandBits) - 1

\* ExpRand(): r is the value rand() returns.
ExpRand(r) ==
    LET scale == RDiv(One, Log(ToFloat(ToFloat(RAND_MAX) + 2)))
    IN  RAdd(RMul(RNeg(scale), Log(ToFloat(ToFloat(r) + 2))), One)

\* ------------------------------------------------------------ MurmurHash3
\* MurmurHash3_x86_32 of the 8-byte key (x << 32) | y under a seed: a fixed
\* mixing function of (x, y, seed) with values in 0..MaxHash.
MurmurHash3_32(key, seed) ==
    LET x == key[1]
        y == key[2]
    IN  ((x * x + 3 * x + 1) * 7 + (5 * y * y + y) * 11 + 9 * x * y
            + 13 * (seed % 64) + (seed \div 64)) % (MaxHash + 1)

\* ------------------------------------------------------------ Common.h
lerpSwapped(t, a, b) == RAdd(b, RMul(t, RSub(a, b)))

lerp(t, a, b) == RAdd(a, RMul(t, RSub(b, a)))

s_curve(t) == RMul(RMul(t, t), RSub(RInt(3), RMul(Two, t)))

s_curve2(t) ==
    RMul(RMul(RMul(t, t), t),
         RAdd(RInt(10), RMul(RMul(RInt(3), t), RSub(RMul(Two, t), RInt(5)))))

\* ------------------------------------------- InfiniteAmortizedNoise2D.cpp
\* cosf and sinf of the float angle a: a point of the unit circle.  The model
\* uses the twelve rational points with denominator 1 or 5.
Directions ==
    << <<5, 0>>, <<4, 3>>, <<3, 4>>, <<0, 5>>, <<-3, 4>>, <<-4, 3>>,
       <<-5, 0>>, <<-4, -3>>, <<-3, -4>>, <<0, -5>>, <<3, -4>>, <<4, -3>> >>

cosf(a) == Norm(Directions[(a % 12) + 1][1], 5)
sinf(a) == Norm(Directions[(a % 12) + 1][2], 5)

RECURSIVE UpFromD(_, _)
UpFromD(d, i) == IF i = 0 THEN d ELSE RAdd(UpFromD(d, i - 1), d)

RECURSIVE Up(_, _)
Up(d, i) == IF i = 0 THEN Zero ELSE RAdd(Up(d, i - 1), d)

RECURSIVE Dn(_, _, _)
Dn(d, n, i) == IF i = n - 1 THEN d ELSE RAdd(Dn(d, n, i + 1), d)

\* FillUp(t, s, n): the table t after the call.
FillUp(t, s, n) ==
    LET d == RDiv(s, RInt(n))
    IN  [i \in DOMAIN t |-> IF i < n THEN Up(d, i) ELSE t[i]]

\* FillDn(t, s, n): the table t after the call.
FillDn(t, s, n) ==
    LET d == RDiv(RNeg(s), RInt(n))
    IN  [i \in DOMAIN t |-> IF i < n THEN Dn(d, n, i) ELSE t[i]]

\* CInfiniteAmortizedNoise2D::h, with the member seed passed in.
h(x, y, seed) == MurmurHash3_32(<<x, y>>, seed)

initEdgeTablesSwapped(tb, seed, x0, y0, n) ==
    LET b00 == h(x0, y0, seed)
        b01 == h(x0 + 1, y0, seed)
        b10 == h(x0, y0 + 1, seed)
        b11 == h(x0 + 1, y0 + 1, seed)
    IN  [uax |-> FillUp(tb.uax, cosf(ToFloat(b00)), n),
         vax |-> FillDn(tb.vax, cosf(ToFloat(b01)), n),
         ubx |-> FillUp(tb.ubx, cosf(ToFloat(b10)), n),
         vbx |-> FillDn(tb.vbx, cosf(ToFloat(b11)), n),
         uay |-> FillUp(tb.uay, sinf(ToFloat(b00)), n),
         vay |-> FillUp(tb.vay, sinf(ToFloat(b01)), n),
         uby |-> FillDn(tb.uby, sinf(ToFloat(b10)), n),
         vby |-> FillDn(tb.vby, sinf(ToFloat(b11)), n)]

\* CInfiniteAmortizedNoise2D::initEdgeTables: the eight tables after the call.
initEdgeTables(tb, seed, x0, y0, n) ==
    LET b00 == h(x0, y0, seed)
        b01 == h(x0, y0 + 1, seed)
        b10 == h(x0 + 1, y0, seed)
        b11 == h(x0 + 1, y0 + 1, seed)
    IN  [uax |-> FillUp(tb.uax, cosf(ToFloat(b00)), n),
         vax |-> FillDn(tb.vax, cosf(ToFloat(b01)), n),
         ubx |-> FillUp(tb.ubx, cosf(ToFloat(b10)), n),
         vbx |-> FillDn(tb.vbx, cosf(ToFloat(b11)), n),
         uay |-> FillUp(tb.uay, sinf(ToFloat(b00)), n),
         vay |-> FillUp(tb.vay, sinf(ToFloat(b01)), n),
         uby |-> FillDn(tb.uby, sinf(ToFloat(b10)), n),
         vby |-> FillDn(tb.vby, sinf(ToFloat(b11)), n)]

\* initSplineTable(n): the spline table after the call.
initSplineTable(sp, n) ==
    [i \in DOMAIN sp |-> IF i < n THEN s_curve2(Norm(i, n)) ELSE sp[i]]

getNoiseTransposed(tb, sp, i, j) ==
    LET a == lerp(sp[i], RAdd(tb.uax[j], tb.uay[i]), RAdd(tb.vax[j], tb.vay[i]))
        b == lerp(sp[i], RAdd(tb.ubx[j], tb.uby[i]), RAdd(tb.vbx[j], tb.vby[i]))
    IN  lerp(sp[j], a, b)

\* getNoise(i, j): one point of one octave, read from the tables.
getNoise(tb, sp, i, j) ==
    LET a == lerp(sp[j], RAdd(tb.uax[j], tb.uay[i]), RAdd(tb.vax[j], tb.vay[i]))
        b == lerp(sp[j], RAdd(tb.ubx[j], tb.uby[i]), RAdd(tb.vbx[j], tb.vby[i]))
    IN  lerp(sp[i], a, b)

InSubcell(I, J, n, i0, j0) ==
    /\ i0 <= I /\ I < i0 + n
    /\ j0 <= J /\ J < j0 + n

getNoiseCellAdd(tb, sp, n, i0, j0, c) ==
    [I \in DOMAIN c |-> [J \in DOMAIN c[I] |->
        IF InSubcell(I, J, n, i0, j0)
        THEN RAdd(c[I][J], getNoise(tb, sp, I - i0, J - j0))
        ELSE c[I][J]]]

\* getNoise(n, i0, j0, cell): the cell after one octave is copied into a subcell.
getNoiseCell(tb, sp, n, i0, j0, c) ==
    [I \in DOMAIN c |-> [J \in DOMAIN c[I] |->
        IF InSubcell(I, J, n, i0, j0) THEN getNoise(tb, sp, I - i0, J - j0)
        ELSE c[I][J]]]

addNoiseOverwrite(tb, sp, n, i0, j0, scale, c) ==
    [I \in DOMAIN c |-> [J \in DOMAIN c[I] |->
        IF InSubcell(I, J, n, i0, j0)
        THEN RMul(scale, getNoise(tb, sp, I - i0, J - j0))
        ELSE c[I][J]]]

\* addNoise(n, i0, j0, scale, cell): the cell after one octave is added in.
addNoise(tb, sp, n, i0, j0, scale, c) ==
    [I \in DOMAIN c |-> [J \in DOMAIN c[I] |->
        IF InSubcell(I, J, n, i0, j0)
        THEN RAdd(c[I][J], RMul(scale, getNoise(tb, sp, I - i0, J - j0)))
        ELSE c[I][J]]]

\* --------------------------------------------------- TerrainGenerator.cpp
SeedModulus == Pow2(SeedBits)
seed1(s) == (s + 9999) % SeedModulus
seed2Reused(s) == (s + 9999) % SeedModulus
seed2(s) == (s + 314159) % SeedModulus

\* CTerrainGenerator::h
hSeeded(x, y, seed) == MurmurHash3_32(<<x, y>>, seed)

\* The magnitude of the gradient at lattice point (x, y).
Magnitude(s, omega, x, y) ==
    ExpHash(hSeeded(x, y, seed1(s)), hSeeded(x, y, seed2(s)), MaxHash, omega)

TerrainInitEdgeTablesMixed(tb, seed, omega, x0, y0, n) ==
    LET b00 == h(x0, y0, seed)
        b01 == h(x0, y0 + 1, seed)
        b10 == h(x0 + 1, y0, seed)
        b11 == h(x0 + 1, y0 + 1, seed)
        m00 == Magnitude(seed, omega, x0, y0)
        m01 == Magnitude(seed, omega, x0, y0 + 1)
        m10 == Magnitude(seed, omega, x0 + 1, y0)
        m11 == Magnitude(seed, omega, x0 + 1, y0 + 1)
    IN  [uax |-> FillUp(tb.uax, RMul(m00, cosf(ToFloat(b00))), n),
         vax |-> FillDn(tb.vax, RMul(m01, cosf(ToFloat(b01))), n),
         ubx |-> FillUp(tb.ubx, RMul(m10, cosf(ToFloat(b10))), n),
         vbx |-> FillDn(tb.vbx, RMul(m11, cosf(ToFloat(b11))), n),
         uay |-> FillUp(tb.uay, RMul(m00, sinf(ToFloat(b00))), n),
         vay |-> FillUp(tb.vay, RMul(m10, sinf(ToFloat(b01))), n),
         uby |-> FillDn(tb.uby, RMul(m01, sinf(ToFloat(b10))), n),
         vby |-> FillDn(tb.vby, RMul(m11, sinf(ToFloat(b11))), n)]

\* CTerrainGenerator::initEdgeTables: the eight tables after the call.
TerrainInitEdgeTables(tb, seed, omega, x0, y0, n) ==
    LET b00 == h(x0, y0, seed)
        b01 == h(x0, y0 + 1, seed)
        b10 == h(x0 + 1, y0, seed)
        b11 == h(x0 + 1, y0 + 1, seed)
        m00 == Magnitude(seed, omega, x0, y0)
        m01 == Magnitude(seed, omega, x0, y0 + 1)
        m10 == Magnitude(seed, omega, x0 + 1, y0)
        m11 == Magnitude(seed, omega, x0 + 1, y0 + 1)
    IN  [uax |-> FillUp(tb.uax, RMul(m00, cosf(ToFloat(b00))), n),
         vax |-> FillDn(tb.vax, RMul(m01, cosf(ToFloat(b01))), n),
         ubx |-> FillUp(tb.ubx, RMul(m10, cosf(ToFloat(b10))), n),
         vbx |-> FillDn(tb.vbx, RMul(m11, cosf(ToFloat(b11))), n),
         uay |-> FillUp(tb.uay, RMul(m00, sinf(ToFloat(b00))), n),
         vay |-> FillUp(tb.vay, RMul(m01, sinf(ToFloat(b01))), n),
         uby |-> FillDn(tb.uby, RMul(m10, sinf(ToFloat(b10))), n),
         vby |-> FillDn(tb.vby, RMul(m11, sinf(ToFloat(b11))), n)]

\* ======================================================== the state machine
\* More bounds of the model.
MaxSize == 5        \* cell sizes n = 1 .. MaxSize are passed to the constructor and generate
MaxOctave == 3      \* largest octave number m0, m1

Origins == {<<0, 0>>, <<1, 0>>, <<2, 4>>}   \* origins (x, y) of the cell
Seeds == {0, 1}

\* Granularities of the first generated octave whose exact point values fit
\* 32-bit integers (a value at granularity n has a denominator near n^11).
ExactGranularities == 0 .. 4

\* The cell sizes: the small ones, and the next power of two.
CellSizes == (1 .. MaxSize) \cup {8}

Runs == {1, 2}      \* two generator objects given the same arguments
\* What the buffer and the tables of each run may hold before the call.
Junks == {[run \in Runs |-> IF run = 1 THEN -3 ELSE 7]}
GenOmegas == {Zero, Half, One}
Omegas == {RInt(-1), Zero, <<1, 4>>, Half, One, Two}

VARIABLES
    arg,      \* generate's arguments and the generator's construction
    junk,     \* junk[run]: the initial content of that run's buffer and tables
    pc,       \* position in generate
    n, r, x, y, i, k, i0, j0, scale,   \* generate's locals and parameters
    cell,     \* cell[run]: the caller's buffer
    spline,   \* spline[run]
    tab,      \* tab[run]: the eight edge tables
    ret,      \* generate's return value, p + q*sqrt(2) as [rat |-> p, root |-> q]
    hpc, harg, hret   \* the hash functions: position, arguments, result

vars == <<arg, junk, pc, n, r, x, y, i, k, i0, j0, scale, cell, spline, tab, ret,
          hpc, harg, hret>>
genVars == <<arg, junk, pc, n, r, x, y, i, k, i0, j0, scale, cell, spline, tab, ret>>
hashVars == <<hpc, harg, hret>>

None == <<>>
M_SQRT2 == [rat |-> Zero, root |-> One]

\* The first octave's granularity: n after the skip loop.
RECURSIVE Halved(_, _)
Halved(m, times) == IF times <= 0 THEN m ELSE Halved(Div2(m), times - 1)

JunkTable(N, v) == [e \in 0 .. N - 1 |-> RInt(v)]
JunkTables(N, v) ==
    [uax |-> JunkTable(N, v), vax |-> JunkTable(N, v), ubx |-> JunkTable(N, v),
     vbx |-> JunkTable(N, v), uay |-> JunkTable(N, v), vay |-> JunkTable(N, v),
     uby |-> JunkTable(N, v), vby |-> JunkTable(N, v)]
JunkCell(N, v) == [I \in 0 .. N - 1 |-> [J \in 0 .. N - 1 |-> RInt(v)]]

\* The constructor (tables of arg.n entries, uninitialised) and the caller's
\* allocation of the n x n buffer, followed by the call of generate.
Init ==
    /\ arg \in [x : {o[1] : o \in Origins}, y : {o[2] : o \in Origins},
                m0 : 1 .. MaxOctave, m1 : 1 .. MaxOctave, n : CellSizes,
                seed : Seeds, terrain : BOOLEAN, omega : GenOmegas]
    /\ <<arg.x, arg.y>> \in Origins
    /\ arg.terrain \/ arg.omega = Zero
    /\ Halved(arg.n, arg.m0 - 1) \in ExactGranularities
    /\ junk \in Junks
    /\ pc = "skip"
    /\ n = arg.n /\ r = 1 /\ x = arg.x /\ y = arg.y
    /\ i = 1 /\ k = 0 /\ i0 = 0 /\ j0 = 0 /\ scale = One
    /\ cell = [run \in Runs |-> JunkCell(arg.n, junk[run])]
    /\ spline = [run \in Runs |-> JunkTable(arg.n, junk[run])]
    /\ tab = [run \in Runs |-> JunkTables(arg.n, junk[run])]
    /\ ret = None
    /\ hpc = "idle" /\ harg = None /\ hret = None

\* The virtual call of initEdgeTables.
EdgeTablesOf(tb, x0, y0, gran) ==
    IF arg.terrain THEN TerrainInitEdgeTables(tb, arg.seed, arg.omega, x0, y0, gran)
    ELSE initEdgeTables(tb, arg.seed, x0, y0, gran)

SkipDoublingOrigin ==
    /\ pc = "skip" /\ i < arg.m0
    /\ n' = Div2(n) /\ r' = r + r /\ i' = i + 1 /\ x' = x + x /\ y' = y + y
    /\ UNCHANGED <<arg, junk, pc, k, i0, j0, scale, cell, spline, tab, ret>>
    /\ UNCHANGED hashVars

\* for(int i=1; i<m0; i++){ n /= 2; r += r; }
Skip ==
    /\ pc = "skip" /\ i < arg.m0
    /\ n' = Div2(n) /\ r' = r + r /\ i' = i + 1
    /\ UNCHANGED <<arg, junk, pc, x, y, k, i0, j0, scale, cell, spline, tab, ret>>
    /\ UNCHANGED hashVars

BailGuardOff(gran) == gran < 1

\* if(n < 2)
BailGuard(gran) == gran < 2

\* if(n < 2) return 1.0f;
Bail ==
    /\ pc = "skip" /\ ~(i < arg.m0)
    /\ BailGuard(n)
    /\ ret' = [rat |-> One, root |-> Zero]
    /\ pc' = "done"
    /\ UNCHANGED <<arg, junk, n, r, x, y, i, k, i0, j0, scale, cell, spline, tab>>
    /\ UNCHANGED hashVars

\* initSplineTable(n) before the first octave's subcell loops.
BeginFirst ==
    /\ pc = "skip" /\ ~(i < arg.m0)
    /\ ~BailGuard(n)
    /\ spline' = [run \in Runs |-> initSplineTable(spline[run], n)]
    /\ i0' = 0 /\ j0' = 0
    /\ pc' = "first"
    /\ UNCHANGED <<arg, junk, n, r, x, y, i, k, scale, cell, tab, ret>>
    /\ UNCHANGED hashVars

NextSubcellDiagonal == i0' = i0 + 1 /\ j0' = j0 + 1

\* The loop counters after one subcell.
NextSubcell ==
    IF j0 + 1 < r THEN i0' = i0 /\ j0' = j0 + 1
    ELSE i0' = i0 + 1 /\ j0' = 0

\* One subcell of the first octave: initEdgeTables, then getNoise into cell.
FirstSubcell ==
    /\ pc = "first" /\ i0 < r
    /\ tab' = [run \in Runs |-> EdgeTablesOf(tab[run], x + i0, y + j0, n)]
    /\ cell' = [run \in Runs |->
                  getNoiseCell(tab'[run], spline[run], n, i0 * n, j0 * n, cell[run])]
    /\ NextSubcell
    /\ UNCHANGED <<arg, junk, pc, n, r, x, y, i, k, scale, spline, ret>>
    /\ UNCHANGED hashVars

\* float scale = 1.0f; and the initialisation k = m0 of the octave loop.
EndFirst ==
    /\ pc = "first" /\ ~(i0 < r)
    /\ scale' = One /\ k' = arg.m0
    /\ pc' = "octave"
    /\ UNCHANGED <<arg, junk, n, r, x, y, i, i0, j0, cell, spline, tab, ret>>
    /\ UNCHANGED hashVars

OctaveGuardOffByOne == k + 1 < arg.m1 /\ n >= 2
OctaveGuardGranOnly == n >= 2

\* k<m1 && n>=2
OctaveGuard == k < arg.m1 /\ n >= 2

NextScaleSame(sc) == sc

\* scale *= 0.5f
NextScale(sc) == RMul(sc, Half)

BeginOctaveStaleSpline ==
    /\ pc = "octave" /\ OctaveGuard
    /\ n' = Div2(n) /\ r' = r + r /\ x' = x + x /\ y' = y + y
    /\ scale' = NextScale(scale)
    /\ spline' = [run \in Runs |-> initSplineTable(spline[run], n)]
    /\ i0' = 0 /\ j0' = 0
    /\ pc' = "add"
    /\ UNCHANGED <<arg, junk, i, k, cell, tab, ret>>
    /\ UNCHANGED hashVars

\* An octave after the first: rescale, then initSplineTable(n).
BeginOctave ==
    /\ pc = "octave" /\ OctaveGuard
    /\ n' = Div2(n) /\ r' = r + r /\ x' = x + x /\ y' = y + y
    /\ scale' = NextScale(scale)
    /\ spline' = [run \in Runs |-> initSplineTable(spline[run], n')]
    /\ i0' = 0 /\ j0' = 0
    /\ pc' = "add"
    /\ UNCHANGED <<arg, junk, i, k, cell, tab, ret>>
    /\ UNCHANGED hashVars

\* One subcell of a later octave: initEdgeTables, then addNoise into cell.
AddSubcell ==
    /\ pc = "add" /\ i0 < r
    /\ tab' = [run \in Runs |-> EdgeTablesOf(tab[run], x + i0, y + j0, n)]
    /\ cell' = [run \in Runs |->
                  addNoise(tab'[run], spline[run], n, i0 * n, j0 * n, scale, cell[run])]
    /\ NextSubcell
    /\ UNCHANGED <<arg, junk, pc, n, r, x, y, i, k, scale, spline, ret>>
    /\ UNCHANGED hashVars

\* k++ at the end of an octave.
EndOctave ==
    /\ pc = "add" /\ ~(i0 < r)
    /\ k' = k + 1
    /\ pc' = "octave"
    /\ UNCHANGED <<arg, junk, n, r, x, y, i, i0, j0, scale, cell, spline, tab, ret>>
    /\ UNCHANGED hashVars

ReturnValueNoRoot(sc) == [rat |-> RDiv(One, RSub(Two, sc)), root |-> Zero]

ReturnValueTimes(sc) == [rat |-> Zero, root |-> RMul(M_SQRT2.root, RSub(Two, sc))]

\* (float)M_SQRT2/(2.0f - scale)
ReturnValue(sc) == [rat |-> Zero, root |-> RDiv(M_SQRT2.root, RSub(Two, sc))]

Return ==
    /\ pc = "octave" /\ ~OctaveGuard
    /\ ret' = ReturnValue(scale)
    /\ pc' = "done"
    /\ UNCHANGED <<arg, junk, n, r, x, y, i, k, i0, j0, scale, cell, spline, tab>>
    /\ UNCHANGED hashVars

Next ==
    \/ Skip \/ Bail \/ BeginFirst \/ FirstSubcell \/ EndFirst
    \/ BeginOctave \/ AddSubcell \/ EndOctave \/ Return

Spec == Init /\ [][Next]_vars

\* generate called with any integers: octave numbers below 1, m1 below m0,
\* sizes below 1.  The caller's buffer and the tables have max(n, 0) entries.
InitAll ==
    /\ arg \in [x : {1}, y : {0}, m0 : -1 .. MaxOctave, m1 : -1 .. MaxOctave,
                n : -2 .. MaxSize, seed : {0}, terrain : {FALSE}, omega : {Zero}]
    /\ Halved(arg.n, arg.m0 - 1) < 2 \/ Halved(arg.n, arg.m0 - 1) \in ExactGranularities
    /\ junk \in Junks
    /\ pc = "skip"
    /\ n = arg.n /\ r = 1 /\ x = arg.x /\ y = arg.y
    /\ i = 1 /\ k = 0 /\ i0 = 0 /\ j0 = 0 /\ scale = One
    /\ cell = [run \in Runs |-> JunkCell(arg.n, junk[run])]
    /\ spline = [run \in Runs |-> JunkTable(arg.n, junk[run])]
    /\ tab = [run \in Runs |-> JunkTables(arg.n, junk[run])]
    /\ ret = None
    /\ hpc = "idle" /\ harg = None /\ hret = None

SpecAll == InitAll /\ [][Next]_vars

\* ------------------------------------------------- the hash functions alone
\* A call of ExpHash(x, y, m, omega) with m = 0xFFFFFFFF as in
\* CTerrainGenerator::initEdgeTables, or of ExpRand() whose rand() returns x.
HInit ==
    /\ hpc = "call"
    /\ harg \in [fn : {"ExpHash", "ExpRand"}, x : 0 .. MaxHash, y : 0 .. MaxHash,
                 omega : Omegas]
    /\ harg.fn = "ExpRand" => harg.x <= RAND_MAX /\ harg.y = 0 /\ harg.omega = Zero
    /\ hret = None
    /\ arg = None /\ junk = None /\ pc = "idle"
    /\ n = 0 /\ r = 0 /\ x = 0 /\ y = 0 /\ i = 0 /\ k = 0 /\ i0 = 0 /\ j0 = 0
    /\ scale = Zero /\ cell = None /\ spline = None /\ tab = None /\ ret = None

CallExpHash ==
    /\ hpc = "call" /\ harg.fn = "ExpHash"
    /\ hret' = ExpHash(harg.x, harg.y, MaxHash, harg.omega)
    /\ hpc' = "returned"
    /\ UNCHANGED harg
    /\ UNCHANGED genVars

CallExpRand ==
    /\ hpc = "call" /\ harg.fn = "ExpRand"
    /\ hret' = ExpRand(harg.x)
    /\ hpc' = "returned"
    /\ UNCHANGED harg
    /\ UNCHANGED genVars

HNext == CallExpHash \/ CallExpRand

SpecHash == HInit /\ [][HNext]_vars

\* The generator's variables while a function is called on its own.
GeneratorIdle ==
    /\ arg = None /\ junk = None /\ pc = "idle"
    /\ n = 0 /\ r = 0 /\ x = 0 /\ y = 0 /\ i = 0 /\ k = 0 /\ i0 = 0 /\ j0 = 0
    /\ scale = Zero /\ cell = None /\ spline = None /\ tab = None /\ ret = None

\* ------------------------------------------------- initSplineTable alone
MaxSpline == 12     \* table sizes and granularities 1 .. MaxSpline

\* initSplineTable(n) on a generator constructed with size entries, whose
\* spline table holds junk: hret is the table.
SInit ==
    /\ hpc = "call"
    /\ harg \in [fn : {"initSplineTable"}, n : 1 .. MaxSpline,
                 size : 1 .. MaxSpline, junk : {-3}]
    /\ harg.n <= harg.size
    /\ hret = JunkTable(harg.size, harg.junk)
    /\ GeneratorIdle

CallInitSplineTable ==
    /\ hpc = "call" /\ harg.fn = "initSplineTable"
    /\ hret' = initSplineTable(hret, harg.n)
    /\ hpc' = "returned"
    /\ UNCHANGED harg
    /\ UNCHANGED genVars

SpecSpline == SInit /\ [][CallInitSplineTable]_vars

\* ------------------------------------------- CTerrainGenerator's constructor
SeedWindow == 8     \* seeds within this distance of a wrap-around point

\* The seeds next to a point p.
Near(p) == {v \in p - SeedWindow .. p + SeedWindow : 0 <= v /\ v < SeedModulus}

\* Seeds given to the constructor: the smallest, the largest, and those
\* around which s + 9999 or s + 314159 wraps or the two sums come close.
SeedInputs ==
    Near(0) \cup Near(SeedModulus - 1) \cup Near(SeedModulus - 9999)
        \cup Near(SeedModulus - 314159) \cup Near(SeedModulus - (314159 - 9999))

\* CTerrainGenerator(n, s, tail): hret holds the three seeds of the object.
CInit ==
    /\ hpc = "call"
    /\ harg \in [fn : {"CTerrainGenerator"}, s : SeedInputs]
    /\ hret = None
    /\ GeneratorIdle

CallConstructor ==
    /\ hpc = "call" /\ harg.fn = "CTerrainGenerator"
    /\ hret' = [seed |-> harg.s, seed1 |-> seed1(harg.s), seed2 |-> seed2(harg.s)]
    /\ hpc' = "returned"
    /\ UNCHANGED harg
    /\ UNCHANGED genVars

SpecSeed == CInit /\ [][CallConstructor]_vars

\* ---------------------------------------------------- UniformHash alone
\* A call UniformHash(x, max) with 0 <= x <= max.
UInit ==
    /\ hpc = "call"
    /\ harg \in [fn : {"UniformHash"}, x : 0 .. MaxHash, max : 0 .. MaxHash]
    /\ harg.x <= harg.max
    /\ hret = None
    /\ GeneratorIdle

CallUniformHash ==
    /\ hpc = "call" /\ harg.fn = "UniformHash"
    /\ hret' = UniformHash(harg.x, harg.max)
    /\ hpc' = "returned"
    /\ UNCHANGED harg
    /\ UNCHANGED genVars

SpecUniform == UInit /\ [][CallUniformHash]_vars

\* -------------------------------------------- RunExperiment (main.cpp, 3)
GRANULARITY == 100      \* number of bins of the measured distribution

MaxExperiments == 2     \* RunExperiment(omega, n) with n up to this

\* Widths of int in the builds: INT_MAX = RAND_MAX (rand() of glibc) and
\* INT_MAX > RAND_MAX (rand() of the Visual Studio runtime).
IntWidths == {RandBits + 1, RandBits + 2}

INT_MAX(w) == Pow2(w - 1) - 1

\* (float)m for an int m of either sign.
IntToFloat(m) == IF m >= 0 THEN ToFloat(m) ELSE -ToFloat(-m)

\* The values of the int expression rand() + 1 for rand() = rv on a build
\* with w-bit ints.  The sum is exact where it fits; rv + 1 > INT_MAX is a
\* signed overflow, whose outcome is the wrapped sum or the sum carried
\* exactly to the float.
RandPlusOne(rv, w) ==
    IF rv + 1 <= INT_MAX(w) THEN {rv + 1} ELSE {rv + 1 - Pow2(w), rv + 1}

\* UniformRand() whose int expression rand() + 1 has the value s.
UniformRand(s) == Norm(IntToFloat(s), ToFloat(ToFloat(RAND_MAX) + 2))

\* ExpRand(omega): u is the first UniformRand(), v the second, e ExpRand().
ExpRandOmega(omega, u, v, e) ==
    LET w == clip(omega, Zero, One)
    IN  IF RLt(u, w) THEN v ELSE e

\* (int)f for a float f: truncation toward zero.
ToInt(f) == IF f[1] >= 0 THEN f[1] \div f[2] ELSE -((-f[1]) \div f[2])

\* The globals of main.cpp before RunExperiment is called: zero-initialised.
EInit ==
    /\ hpc = "call"
    /\ harg \in [fn : {"RunExperiment"}, omega : {Zero, Half, One},
                 n : 0 .. MaxExperiments, intbits : IntWidths]
    /\ hret = [g_nDistribution |-> [b \in 0 .. GRANULARITY - 1 |-> 0],
               g_nMissedSmall |-> 0, g_nMissedLarge |-> 0,
               g_fMin |-> Zero, g_fMax |-> Zero, i |-> 0, sample |-> 0]
    /\ GeneratorIdle

ResetDistribution ==
    /\ hpc = "call" /\ harg.fn = "RunExperiment"
    /\ hret' = [g_nDistribution |-> [b \in 0 .. GRANULARITY - 1 |-> 0],
                g_nMissedSmall |-> 0, g_nMissedLarge |-> 0,
                g_fMin |-> RInt(999999), g_fMax |-> RInt(-999999),
                i |-> 0, sample |-> 0]
    /\ hpc' = "loop"
    /\ UNCHANGED harg
    /\ UNCHANGED genVars

\* One iteration of the loop of RunExperiment: r1, r2 are the results of the
\* two calls of rand() that ExpRand(omega) makes.
Experiment ==
    /\ hpc = "loop" /\ hret.i < harg.n
    /\ \E r1, r2 \in 0 .. RAND_MAX :
         \E s1 \in RandPlusOne(r1, harg.intbits), s2 \in RandPlusOne(r2, harg.intbits) :
           LET fSample == ExpRandOmega(harg.omega, UniformRand(s1),
                                       UniformRand(s2), ExpRand(r2))
               sample  == ToInt(RMul(fSample, RInt(GRANULARITY - 1)))
           IN  hret' = [hret EXCEPT
                          !.g_fMin = RMin(@, fSample),
                          !.g_fMax = RMax(@, fSample),
                          !.sample = sample,
                          !.g_nMissedSmall = IF sample < 0 THEN @ + 1 ELSE @,
                          !.g_nMissedLarge =
                              IF sample >= 0 /\ sample >= GRANULARITY THEN @ + 1 ELSE @,
                          !.g_nDistribution =
                              IF sample >= 0 /\ sample < GRANULARITY
                              THEN [@ EXCEPT ![sample] = @ + 1] ELSE @,
                          !.i = @ + 1]
    /\ UNCHANGED <<hpc, harg>>
    /\ UNCHANGED genVars

ExperimentReturn ==
    /\ hpc = "loop" /\ hret.i >= harg.n
    /\ hpc' = "returned"
    /\ UNCHANGED <<harg, hret>>
    /\ UNCHANGED genVars

ENext == ResetDistribution \/ Experiment \/ ExperimentReturn

SpecExperiment == EInit /\ [][ENext]_vars

\* ------------------------------------------------ Pack and Analyze (4, 5)
GRIDSIZE == 20          \* DEM files on one side of the grid
CELLSIZE == 4000        \* points on one side of a DEM file
ARRAYSIZE == CELLSIZE * GRIDSIZE
NUMOCTAVES == 16
UIntBits == 32          \* width of unsigned int

IndexWindow == 2        \* coordinates within this distance of the sampled ones

\* Array positions are kept as <<high, low>> with low < Limb, standing for
\* high * Limb + low.
Limb == Pow2(UIntBits \div 2)

\* The exact value of a * ARRAYSIZE + b for 0 <= a, b < 2 * ARRAYSIZE.
Position(a, b) ==
    LET low == a * (ARRAYSIZE % Limb) + b
    IN  <<a * (ARRAYSIZE \div Limb) + low \div Limb, low % Limb>>

\* A position reduced modulo 2^UIntBits.
Wrap(p) == <<p[1] % Limb, p[2]>>

\* Analyze: the unsigned int expression x*ARRAYSIZE + y of ht and of the
\* good-data test (int x is converted to unsigned int).
Index(a, b) == Wrap(Position(a, b))

\* Pack: main writes row a of g_nHeight as the a-th record of ARRAYSIZE
\* elements, so the element of point (a, b) is at this position of the file,
\* which Analyze reads whole into its buffer.
PackedPosition(a, b) == Position(a, b)

\* The point whose element the packer wrote at position p < 2^UIntBits:
\* <<p \div ARRAYSIZE, p % ARRAYSIZE>>, by long division.
PointAt(p) ==
    LET sq  == Pow2(UIntBits \div 4)
        qh  == p[1] \div ARRAYSIZE
        rh  == p[1] % ARRAYSIZE
        q2  == (rh * sq) \div ARRAYSIZE
        r2  == (rh * sq) % ARRAYSIZE
        q3  == (r2 * sq + p[2]) \div ARRAYSIZE
        r3  == (r2 * sq + p[2]) % ARRAYSIZE
    IN  <<qh * Limb + q2 * sq + q3, r3>>

\* Coordinates at the ends and the middle of a side and around the first row
\* that lies wholly beyond the first 2^UIntBits elements.
FirstRowBeyond == (Pow2(UIntBits - 2) \div ARRAYSIZE) * 4 + 4
Coordinates ==
    {c \in 0 .. ARRAYSIZE - 1 :
        \/ c <= IndexWindow
        \/ ARRAYSIZE - 1 - c <= IndexWindow
        \/ Abs(c - FirstRowBeyond) <= IndexWindow
        \/ Abs(c - ARRAYSIZE \div 2) <= IndexWindow}

\* A call ht(x, y), or one iteration (i, j) = (x, y) of the loop of
\* ProcessSlopeData(k).
AInit ==
    /\ hpc = "call"
    /\ harg \in [fn : {"ht", "ProcessSlopeData"}, x : Coordinates,
                 y : Coordinates, k : 0 .. NUMOCTAVES - 1]
    /\ harg.fn = "ht" => harg.k = 0
    /\ harg.fn = "ProcessSlopeData" => harg.k \in {0, 1, NUMOCTAVES - 1}
    /\ hret = None
    /\ GeneratorIdle

\* ht(x, y): hret.read is the point whose element is returned.
ht ==
    /\ hpc = "call" /\ harg.fn = "ht"
    /\ hret' = [index |-> Index(harg.x, harg.y),
                read |-> PointAt(Index(harg.x, harg.y))]
    /\ hpc' = "returned"
    /\ UNCHANGED harg
    /\ UNCHANGED genVars

\* The reads of one iteration of ProcessSlopeData(k): the good-data test,
\* ht(i, j), and ht of the neighbours at distance scale inside the array.
ProcessSlopeData ==
    /\ hpc = "call" /\ harg.fn = "ProcessSlopeData"
    /\ LET sc == Pow2(harg.k)
       IN  hret' = [index |-> Index(harg.x, harg.y),
                    read  |-> PointAt(Index(harg.x, harg.y)),
                    right |-> IF harg.x + sc < ARRAYSIZE
                              THEN PointAt(Index(harg.x + sc, harg.y)) ELSE None,
                    down  |-> IF harg.y + sc < ARRAYSIZE
                              THEN PointAt(Index(harg.x, harg.y + sc)) ELSE None]
    /\ hpc' = "returned"
    /\ UNCHANGED harg
    /\ UNCHANGED genVars

ANext == ht \/ ProcessSlopeData

SpecAnalyze == AInit /\ [][ANext]_vars

\* --------------------------------------------------- one subcell on its own
MaxEdge == 3        \* subcell granularities 1 .. MaxEdge

\* Hash values of the four corners.
EdgeHashes == {0, 2, 5, MaxHash}

\* The body of initEdgeTables for the corner hashes b00, b01, b10, b11.
FillEdgeTables(tb, b00, b01, b10, b11, gran) ==
    [uax |-> FillUp(tb.uax, cosf(ToFloat(b00)), gran),
     vax |-> FillDn(tb.vax, cosf(ToFloat(b01)), gran),
     ubx |-> FillUp(tb.ubx, cosf(ToFloat(b10)), gran),
     vbx |-> FillDn(tb.vbx, cosf(ToFloat(b11)), gran),
     uay |-> FillUp(tb.uay, sinf(ToFloat(b00)), gran),
     vay |-> FillUp(tb.vay, sinf(ToFloat(b01)), gran),
     uby |-> FillDn(tb.uby, sinf(ToFloat(b10)), gran),
     vby |-> FillDn(tb.vby, sinf(ToFloat(b11)), gran)]

\* One subcell of granularity n whose corners hash to b00, b01, b10, b11.
GInit ==
    /\ hpc = "call"
    /\ harg \in [fn : {"getNoise"}, n : 1 .. MaxEdge, b00 : EdgeHashes,
                 b01 : EdgeHashes, b10 : EdgeHashes, b11 : EdgeHashes]
    /\ hret = None
    /\ GeneratorIdle

\* initSplineTable(n), initEdgeTables and getNoise(i, j) for 0 <= i, j < n.
CallGetNoise ==
    /\ hpc = "call" /\ harg.fn = "getNoise"
    /\ LET tb == FillEdgeTables(JunkTables(harg.n, -3), harg.b00, harg.b01,
                                harg.b10, harg.b11, harg.n)
           sp == initSplineTable(JunkTable(harg.n, -3), harg.n)
       IN  hret' = [tab |-> tb, spline |-> sp,
                    noise |-> [a \in 0 .. harg.n - 1 |-> [b \in 0 .. harg.n - 1 |->
                                  getNoise(tb, sp, a, b)]]]
    /\ hpc' = "returned"
    /\ UNCHANGED harg
    /\ UNCHANGED genVars

SpecEdge == GInit /\ [][CallGetNoise]_vars

\* ------------------------------------------------ FillUp and FillDn alone
MaxFill == 5        \* table sizes and granularities 1 .. MaxFill

\* The corner components FillUp and FillDn are given: cosines and sines.
Components == {cosf(a) : a \in 0 .. 11} \cup {sinf(a) : a \in 0 .. 11}

\* FillUp(t, s, n) or FillDn(t, s, n) on a table t of size entries that
\* holds junk: hret is the table.
FInit ==
    /\ hpc = "call"
    /\ harg \in [fn : {"FillUp", "FillDn"}, s : Components, n : 1 .. MaxFill,
                 size : 1 .. MaxFill, junk : {-3}]
    /\ harg.n <= harg.size
    /\ hret = JunkTable(harg.size, harg.junk)
    /\ GeneratorIdle

CallFillUp ==
    /\ hpc = "call" /\ harg.fn = "FillUp"
    /\ hret' = FillUp(hret, harg.s, harg.n)
    /\ hpc' = "returned"
    /\ UNCHANGED harg
    /\ UNCHANGED genVars

CallFillDn ==
    /\ hpc = "call" /\ harg.fn = "FillDn"
    /\ hret' = FillDn(hret, harg.s, harg.n)
    /\ hpc' = "returned"
    /\ UNCHANGED harg
    /\ UNCHANGED genVars

FNext == CallFillUp \/ CallFillDn

SpecFill == FInit /\ [][FNext]_vars

\* ================================================================== claims
Buffer == 0 .. arg.n - 1
RatOne == [rat |-> One, root |-> Zero]

\* n after the skip phase is below 2.
Degenerate == Halved(arg.n, arg.m0 - 1) < 2

RECURSIVE HalfPow(_)
HalfPow(e) == IF e <= 0 THEN One ELSE RMul(Half, HalfPow(e - 1))

\* The octave generated k-th (0 for the first): its granularity, its subcells
\* per side, and whether its subcells cover buffer entry (I, J).
OctGran(kk) == Halved(arg.n, arg.m0 - 1 + kk)
OctCount(kk) == Pow2(arg.m0 - 1 + kk)
Covered(kk, I, J) ==
    /\ OctGran(kk) >= 1
    /\ I < OctGran(kk) * OctCount(kk)
    /\ J < OctGran(kk) * OctCount(kk)

\* The single-octave value getNoise(i, j) composited for entry (I, J) in the
\* kk-th generated octave, from freshly built tables.
OctaveValue(kk, I, J) ==
    LET g  == OctGran(kk)
        tb == EdgeTablesOf(JunkTables(arg.n, 0), arg.x * Pow2(kk) + (I \div g),
                           arg.y * Pow2(kk) + (J \div g), g)
        sp == initSplineTable(JunkTable(arg.n, 0), g)
    IN  getNoise(tb, sp, I % g, J % g)

\* v_0 + 0.5 v_1 + .. + 0.5^a v_a over the octaves that cover (I, J).
RECURSIVE OctaveSum(_, _, _)
OctaveSum(a, I, J) ==
    LET term == IF Covered(a, I, J) THEN RMul(HalfPow(a), OctaveValue(a, I, J))
                ELSE Zero
    IN  IF a = 0 THEN term ELSE RAdd(OctaveSum(a - 1, I, J), term)

\* C1: a call whose n is below 2 after the skip phase returns exactly 1.0 and
\* never writes the cell, the spline table or the edge tables: they hold at
\* every point of the call what they held before it.
C1_DegenerateNoWork ==
    (pc \in {"skip", "first", "octave", "add", "done"} /\ Degenerate) =>
        /\ cell = [run \in Runs |-> JunkCell(arg.n, junk[run])]
        /\ spline = [run \in Runs |-> JunkTable(arg.n, junk[run])]
        /\ tab = [run \in Runs |-> JunkTables(arg.n, junk[run])]
        /\ pc = "done" => ret = RatOne

C1_Witness ==
    /\ pc = "done" /\ Degenerate
    /\ arg.n >= 2 /\ arg.m0 > 1 /\ junk[1] # junk[2]

\* C2: after a non-degenerate generate every entry covered by the first
\* octave's subcells holds v_0 + sum_{k=1..a} 0.5^k v_k (over the octaves
\* whose subcells cover it), a = k - m0 being the number of later octaves,
\* whatever the entry held before.
C2_OctaveSum ==
    (pc = "done" /\ ~Degenerate) =>
        \A run \in Runs : \A I \in Buffer : \A J \in Buffer :
            Covered(0, I, J) => cell[run][I][J] = OctaveSum(k - arg.m0, I, J)

C2_Witness ==
    /\ pc = "done" /\ ~Degenerate
    /\ k - arg.m0 >= 1
    /\ \E I \in Buffer : \E J \in Buffer :
          /\ Covered(1, I, J)
          /\ cell[1][I][J] # OctaveValue(0, I, J)
          /\ cell[1][I][J] # RInt(junk[1])

\* C3: a non-degenerate generate returns sqrt(2)/(2 - finalScale) with
\* finalScale = 0.5^a, a = k - m0 the number of octaves added after the first;
\* finalScale is the weight (scale) of the last octave added.
C3_ReturnFactor ==
    (pc = "done" /\ ~Degenerate) =>
        /\ scale = HalfPow(k - arg.m0)
        /\ ret = [rat |-> Zero,
                  root |-> RDiv(One, RSub(Two, HalfPow(k - arg.m0)))]

C3_Witness ==
    /\ pc = "done" /\ ~Degenerate
    /\ k - arg.m0 = 2
    /\ ret = [rat |-> Zero, root |-> <<4, 7>>]

\* A <= B * sqrt(2) and A >= B * sqrt(2) for integers A >= 0, B > 0, decided
\* exactly by the continued fraction of sqrt(2):
\* A/B <= sqrt(2)  iff  (2B - A)/(A - B) >= sqrt(2)  when B < A < 2B.
RECURSIVE LeSqrt2(_, _), GeSqrt2(_, _)
LeSqrt2(A, B) ==
    IF A <= B THEN TRUE ELSE IF A >= 2 * B THEN FALSE
    ELSE GeSqrt2(2 * B - A, A - B)
GeSqrt2(A, B) ==
    IF A >= 2 * B THEN TRUE ELSE IF A <= B THEN FALSE
    ELSE LeSqrt2(2 * B - A, A - B)

RAbs(p) == <<Abs(p[1]), p[2]>>

\* |v * f| <= 1 for a buffer value v and a factor f = q * sqrt(2), q > 0:
\* 2|v|q <= sqrt(2).
InUnitRange(v, f) ==
    LET w == RMul(Two, RMul(RAbs(v), f.root)) IN LeSqrt2(w[1], w[2])

\* C4 as stated: after a non-degenerate generate every value left in the
\* buffer, multiplied by the returned factor, lies in [-1, 1].
C4_AllEntriesBounded ==
    (pc = "done" /\ ~Degenerate) =>
        \A run \in Runs : \A I \in Buffer : \A J \in Buffer :
            InUnitRange(cell[run][I][J], ret)

\* C4 amended: after a non-degenerate generate every value of an entry that
\* the first octave's subcells cover, multiplied by the returned factor, lies
\* in [-1, 1].
C4_CoveredEntriesBounded ==
    (pc = "done" /\ ~Degenerate) =>
        \A run \in Runs : \A I \in Buffer : \A J \in Buffer :
            Covered(0, I, J) => InUnitRange(cell[run][I][J], ret)

\* A run of several octaves where some covered value times the factor
\* exceeds 1/2 in magnitude.
C4_Witness ==
    /\ pc = "done" /\ ~Degenerate
    /\ k - arg.m0 >= 1
    /\ \E I \in Buffer : \E J \in Buffer :
          Covered(0, I, J) /\ ~InUnitRange(RMul(Two, cell[1][I][J]), ret)

\* C5 as stated: two non-degenerate calls with the same arguments on equally
\* constructed generators leave the same value in every entry of the buffer,
\* whatever the buffers and tables held before.
C5_AllEntriesEqual ==
    (pc = "done" /\ ~Degenerate) => cell[1] = cell[2]

\* C5 amended: the two calls leave the same value in every entry that the
\* first octave's subcells cover (both indices below (n div 2^(m0-1)) * 2^(m0-1)).
C5_CoveredEntriesEqual ==
    (pc = "done" /\ ~Degenerate) =>
        \A I \in Buffer : \A J \in Buffer :
            Covered(0, I, J) => cell[1][I][J] = cell[2][I][J]

\* Two finished calls that started from different buffer and table contents,
\* with a granularity that is no power of two and leaves entries uncovered.
C5_Witness ==
    /\ pc = "done" /\ ~Degenerate
    /\ junk[1] # junk[2]
    /\ arg.n = 5 /\ k - arg.m0 >= 1
    /\ cell[1][0][0] = cell[2][0][0]
    /\ cell[1][4][4] # cell[2][4][4]

IsPow2(m) == \E e \in 0 .. 10 : m = Pow2(e)

\* generate(X, Y, 1, m1, n) composites octave j (1 for the first).
FullComposited(j) ==
    /\ j <= arg.m1
    /\ Halved(arg.n, j - 1) >= 1
    /\ \A jj \in 1 .. j - 1 : Halved(arg.n, jj - 1) >= 2

\* The contribution of octave j to entry (I, J) inside generate(X, Y, 1, m1, n).
FullContribution(X, Y, j, I, J) ==
    LET g  == Halved(arg.n, j - 1)
        tb == EdgeTablesOf(JunkTables(arg.n, 0), X * Pow2(j - 1) + (I \div g),
                           Y * Pow2(j - 1) + (J \div g), g)
        sp == initSplineTable(JunkTable(arg.n, 0), g)
    IN  RMul(HalfPow(j - 1), getNoise(tb, sp, I % g, J % g))

\* The sum of the contributions of octaves m0..j of generate(X, Y, 1, m1, n).
RECURSIVE SkippedSum(_, _, _, _, _)
SkippedSum(X, Y, j, I, J) ==
    IF j < arg.m0 THEN Zero
    ELSE RAdd(SkippedSum(X, Y, j - 1, I, J),
              IF FullComposited(j) THEN FullContribution(X, Y, j, I, J) ELSE Zero)

SkipCase ==
    /\ pc = "done" /\ ~Degenerate
    /\ 1 < arg.m0 /\ arg.m0 <= arg.m1
    /\ IsPow2(arg.n)

\* C6 as stated: for a power-of-two n and 1 < m0 <= m1 the buffer of
\* generate(x, y, m0, m1, n) is 2^(m0-1) times the sum of the contributions
\* of octaves m0..m1 inside generate(x, y, 1, m1, n).
C6_SkipSameOrigin ==
    SkipCase =>
        \A run \in Runs : \A I \in Buffer : \A J \in Buffer :
            cell[run][I][J] =
                RMul(RInt(Pow2(arg.m0 - 1)), SkippedSum(arg.x, arg.y, arg.m1, I, J))

\* C6 amended: the buffer of generate(X * 2^(m0-1), Y * 2^(m0-1), m0, m1, n)
\* is 2^(m0-1) times the sum of the contributions of octaves m0..m1 inside
\* generate(X, Y, 1, m1, n): the caller scales the origin by the skipped
\* octaves, the skip phase of generate does not.
C6_SkipScaledOrigin ==
    (/\ SkipCase
     /\ arg.x % Pow2(arg.m0 - 1) = 0
     /\ arg.y % Pow2(arg.m0 - 1) = 0) =>
        \A run \in Runs : \A I \in Buffer : \A J \in Buffer :
            cell[run][I][J] =
                RMul(RInt(Pow2(arg.m0 - 1)),
                     SkippedSum(arg.x \div Pow2(arg.m0 - 1),
                                arg.y \div Pow2(arg.m0 - 1), arg.m1, I, J))

C6_Witness ==
    /\ SkipCase
    /\ arg.x = 2 /\ arg.y = 4 /\ arg.m0 = 2
    /\ k - arg.m0 >= 1 /\ n >= 2
    /\ cell[1][1][1] # Zero

\* The gradient of lattice point (X, Y): a function of (X, Y) and the seed.
Gradient(X, Y) ==
    LET b == h(X, Y, arg.seed)
        m == IF arg.terrain THEN Magnitude(arg.seed, arg.omega, X, Y) ELSE One
    IN  <<RMul(m, cosf(ToFloat(b))), RMul(m, sinf(ToFloat(b)))>>

\* The subcell composited last in the current octave.
LastSubcell == IF j0 > 0 THEN <<i0, j0 - 1>> ELSE <<i0 - 1, r - 1>>

\* C7: whenever a subcell with corner (X, Y) has had its edge tables built,
\* each table is the ramp of the gradient of its own lattice point: uax, uay
\* of (X, Y), vax, vay of (X, Y+1), ubx, uby of (X+1, Y), vbx, vby of
\* (X+1, Y+1), the same function Gradient in every role, subcell, octave and
\* for every origin.
C7_SeamGradients ==
    (pc \in {"first", "add"} /\ (i0 > 0 \/ j0 > 0)) =>
        LET X == x + LastSubcell[1]
            Y == y + LastSubcell[2]
            t == JunkTable(arg.n, 0)
        IN  \A run \in Runs : \A e \in 0 .. n - 1 :
              /\ tab[run].uax[e] = FillUp(t, Gradient(X, Y)[1], n)[e]
              /\ tab[run].uay[e] = FillUp(t, Gradient(X, Y)[2], n)[e]
              /\ tab[run].vax[e] = FillDn(t, Gradient(X, Y + 1)[1], n)[e]
              /\ tab[run].vay[e] = FillUp(t, Gradient(X, Y + 1)[2], n)[e]
              /\ tab[run].ubx[e] = FillUp(t, Gradient(X + 1, Y)[1], n)[e]
              /\ tab[run].uby[e] = FillDn(t, Gradient(X + 1, Y)[2], n)[e]
              /\ tab[run].vbx[e] = FillDn(t, Gradient(X + 1, Y + 1)[1], n)[e]
              /\ tab[run].vby[e] = FillDn(t, Gradient(X + 1, Y + 1)[2], n)[e]

\* The subcell at (x+1, y) has just been built after its neighbour at (x, y),
\* in an octave after the first of a terrain generator.
C7_Witness ==
    /\ pc = "add" /\ arg.terrain
    /\ r >= 2 /\ n >= 2
    /\ i0 = 1 /\ j0 = 1
    /\ tab[1].uax[1] # Zero

\* ------------------------------------------------ claims on the octave schedule
\* main.cpp: the cell size and the octave range of the shipped call
\* GenerateAndSave2DNoise(9999, 7777, 5, 12, altitude, cellsize).
cellsize == 4096
MainOctaves == <<5, 12>>

\* The exponent p of a power of two 2^p.
Log2(m) == BitLen(m) - 1

\* The number of iterations of the loop for(k=m0; k<m1 && n>=2; k++) that
\* starts at k = kk with granularity g.
RECURSIVE Accumulated(_, _, _)
Accumulated(kk, m1, g) ==
    IF kk < m1 /\ g >= 2 THEN 1 + Accumulated(kk + 1, m1, Div2(g)) ELSE 0

\* The number of octaves generate(x, y, m0, m1, N, cell) composites.
OctavesComposited(N, m0, m1) ==
    IF Halved(N, m0 - 1) < 2 THEN 0
    ELSE 1 + Accumulated(m0, m1, Halved(N, m0 - 1))

\* C11: for N = 2^p and 1 <= m0 <= m1 <= p generate composites exactly
\* m1 - m0 + 1 octaves (the first and k - m0 later ones), the last at
\* granularity 2^(p - m1 + 1) >= 2, its subcells covering the whole cell; the
\* loops of generate run 8 octaves for the shipped call (4096, 5, 12), the
\* first of them covering the whole 4096 x 4096 cell.
C11_OctaveCount ==
    /\ (pc = "done" /\ IsPow2(arg.n) /\ arg.m0 <= arg.m1 /\ arg.m1 <= Log2(arg.n)) =>
          /\ ~Degenerate /\ ret # RatOne
          /\ 1 + (k - arg.m0) = arg.m1 - arg.m0 + 1
          /\ n = Pow2(Log2(arg.n) - arg.m1 + 1) /\ n >= 2
          /\ r = Pow2(arg.m1 - 1) /\ n * r = arg.n
          /\ \A I \in Buffer : \A J \in Buffer :
                \A kk \in 0 .. k - arg.m0 : Covered(kk, I, J)
    /\ pc = "done" =>
          OctavesComposited(arg.n, arg.m0, arg.m1) =
              IF Degenerate THEN 0 ELSE 1 + (k - arg.m0)
    /\ OctavesComposited(cellsize, MainOctaves[1], MainOctaves[2]) = 8
    /\ MainOctaves[2] - MainOctaves[1] + 1 = 8
    /\ Halved(cellsize, MainOctaves[2] - 1) = 2
    /\ Halved(cellsize, MainOctaves[1] - 1) * Pow2(MainOctaves[1] - 1) = cellsize

\* The largest power-of-two cell, generated from its second to its last octave.
C11_Witness ==
    /\ pc = "done" /\ arg.n = 8 /\ arg.m0 = 2 /\ arg.m1 = 3
    /\ k = 3 /\ n = 2 /\ r = 4

Max(a, b) == IF a > b THEN a ELSE b
Min(a, b) == IF a < b THEN a ELSE b

\* Some step of generate can be taken: the guards of its nine steps.
CanStep ==
    \/ pc = "skip" /\ i < arg.m0
    \/ pc = "skip" /\ ~(i < arg.m0) /\ BailGuard(n)
    \/ pc = "skip" /\ ~(i < arg.m0) /\ ~BailGuard(n)
    \/ pc = "first" /\ i0 < r
    \/ pc = "first" /\ ~(i0 < r)
    \/ pc = "octave" /\ OctaveGuard
    \/ pc = "octave" /\ ~OctaveGuard
    \/ pc = "add" /\ i0 < r
    \/ pc = "add" /\ ~(i0 < r)

\* A bound on the steps left from the head of the octave loop at counter kk
\* with granularity g and rr subcells per side: at most P passes, P the
\* smaller of max(0, m1 - kk) and log2 g, each a nest over at most
\* (rr * 2^P)^2 subcells plus its head and its end.
OctaveSteps(kk, g, rr) ==
    LET P == IF g < 2 THEN 0 ELSE Min(Max(0, arg.m1 - kk), Log2(g))
    IN  1 + P * (rr * Pow2(P) * rr * Pow2(P) + 2)

\* The subcells left in the current nest, and its end.
NestSteps == (r - i0) * r - j0 + 1

\* A bound on the steps generate has left.
StepsLeft ==
    CASE pc = "done" -> 0
      [] pc = "octave" -> OctaveSteps(k, n, r)
      [] pc = "add" -> NestSteps + OctaveSteps(k + 1, n, r)
      [] pc = "first" -> NestSteps + OctaveSteps(arg.m0, n, r)
      [] pc = "skip" ->
            LET left == Max(0, arg.m0 - i)
                g    == Halved(n, left)
                rr   == r * Pow2(left)
            IN  left + 1 + rr * rr + 1 + OctaveSteps(arg.m0, g, rr)

\* C12: every call of generate terminates, for all integer arguments: a step
\* can be taken until it has returned, and every step lowers the bound
\* StepsLeft >= 0.  It returns the sentinel 1.0 with the buffer and the tables
\* untouched, or it has run the skip loop max(0, m0-1) times, the first
\* octave, and at most max(0, m1-m0) accumulation passes; a pass is a nest
\* over r*r subcells.
C12_Terminates ==
    /\ [][StepsLeft' < StepsLeft]_vars
    /\ [](StepsLeft >= 0 /\ (pc = "done" \/ CanStep))
    /\ [](pc \in {"first", "add"} => (i0 <= r /\ j0 < r /\ r >= 1 /\ n >= 1))
    /\ [](pc = "done" =>
            /\ i - 1 = Max(0, arg.m0 - 1)
            /\ \/ /\ Degenerate /\ ret = RatOne
                  /\ cell = [run \in Runs |-> JunkCell(arg.n, junk[run])]
                  /\ spline = [run \in Runs |-> JunkTable(arg.n, junk[run])]
                  /\ tab = [run \in Runs |-> JunkTables(arg.n, junk[run])]
               \/ /\ ~Degenerate /\ ret # RatOne
                  /\ 0 <= k - arg.m0
                  /\ k - arg.m0 <= Max(0, arg.m1 - arg.m0))

\* A finished call with first octave 0 that made two accumulation passes.
C12_Witness ==
    /\ pc = "done" /\ arg.m0 = 0 /\ arg.m1 = 2 /\ arg.n = 4
    /\ k - arg.m0 = 2 /\ n = 1

\* The number of the octave being composited: 0 for the first.
OctIndex == IF pc = "first" THEN 0 ELSE (k - arg.m0) + 1

\* C13: while the octave generated kk-th (0 for the first) is composited,
\* n = floor(N / 2^(m0-1+kk)), r = 2^(m0-1+kk), the origin is
\* (x * 2^kk, y * 2^kk) and the weight is 0.5^kk, and n * r = N when N is a
\* power of two; during the skip phase only n and r have changed: the origin,
\* the weight, the tables and the buffer are what they were at the call.
C13_OctaveSchedule ==
    /\ pc \in {"first", "add"} =>
          /\ n = arg.n \div Pow2(arg.m0 - 1 + OctIndex)
          /\ r = Pow2(arg.m0 - 1 + OctIndex)
          /\ x = arg.x * Pow2(OctIndex) /\ y = arg.y * Pow2(OctIndex)
          /\ scale = HalfPow(OctIndex)
          /\ IsPow2(arg.n) => n * r = arg.n
    /\ pc = "skip" =>
          /\ n = arg.n \div Pow2(i - 1) /\ r = Pow2(i - 1)
          /\ x = arg.x /\ y = arg.y /\ scale = One
          /\ cell = [run \in Runs |-> JunkCell(arg.n, junk[run])]
          /\ spline = [run \in Runs |-> JunkTable(arg.n, junk[run])]
          /\ tab = [run \in Runs |-> JunkTables(arg.n, junk[run])]

\* The third octave of a cell of size 4 at origin (2, 4), half composited.
C13_Witness ==
    /\ pc = "add" /\ OctIndex = 2
    /\ arg.x = 2 /\ arg.y = 4 /\ x = 8 /\ y = 16
    /\ n = 1 /\ r = 4 /\ i0 = 2

\* The octaves after the first whose granularity is at least 2, among those
\* the range m0..m1 asks for, counted from the kk-th generated octave.
RECURSIVE FullOctaves(_)
FullOctaves(kk) ==
    IF arg.m0 + kk <= arg.m1 /\ OctGran(kk) >= 2 THEN 1 + FullOctaves(kk + 1) ELSE 0

\* C14: no octave is composited (no spline table, edge table or buffer entry
\* is written) while the granularity n is below 2, and the factor returned
\* folds in the weights of the octaves of granularity at least 2 only.
C14_StopsBelowTwo ==
    /\ pc \in {"first", "add"} => n >= 2
    /\ (pc = "done" /\ ~Degenerate) =>
          ret = [rat |-> Zero,
                 root |-> RDiv(One, RSub(Two, HalfPow(FullOctaves(1))))]

\* The entries 0 .. g-1 of a spline table are those initSplineTable(g) writes.
FreshSpline(sp, g) == \A e \in 0 .. g - 1 : sp[e] = s_curve2(Norm(e, g))

\* The entries 0 .. g-1 of the eight edge tables are those initEdgeTables
\* writes for the subcell with corner (X, Y) at granularity g.
FreshEdges(tb, X, Y, g) ==
    LET f == EdgeTablesOf(JunkTables(arg.n, 0), X, Y, g)
    IN  \A e \in 0 .. g - 1 :
          /\ tb.uax[e] = f.uax[e] /\ tb.vax[e] = f.vax[e]
          /\ tb.ubx[e] = f.ubx[e] /\ tb.vbx[e] = f.vbx[e]
          /\ tb.uay[e] = f.uay[e] /\ tb.vay[e] = f.vay[e]
          /\ tb.uby[e] = f.uby[e] /\ tb.vby[e] = f.vby[e]

\* C15: the spline table is rebuilt once per composited octave, in the step
\* that sets the octave's n and before any of its subcells, and changes in no
\* other step; the eight edge tables are rebuilt in every subcell's step,
\* for that subcell's corner and the current n, and change in no other step;
\* so each value a subcell's step writes is read from tables built for the
\* current n and that subcell's four corners.
C15_TablesFresh ==
    [][/\ (pc' \in {"first", "add"} /\ pc' # pc) =>
             /\ \A run \in Runs : FreshSpline(spline'[run], n')
             /\ tab' = tab /\ cell' = cell
       /\ (pc \in {"first", "add"} /\ pc' = pc) =>
             /\ n' = n /\ spline' = spline
             /\ \A run \in Runs :
                   /\ FreshSpline(spline[run], n)
                   /\ FreshEdges(tab'[run], x + i0, y + j0, n)
                   /\ \A I \in i0 * n .. i0 * n + n - 1 :
                         \A J \in j0 * n .. j0 * n + n - 1 :
                            cell'[run][I][J] =
                               LET v == getNoise(tab'[run], spline[run],
                                                 I - i0 * n, J - j0 * n)
                               IN  IF pc = "first" THEN v
                                   ELSE RAdd(cell[run][I][J], RMul(scale, v))
       /\ spline' # spline => (pc' \in {"first", "add"} /\ pc' # pc)
       /\ tab' # tab => (pc \in {"first", "add"} /\ pc' = pc)
      ]_vars

\* A subcell of the second octave has been composited at granularity 2 while
\* the upper half of the spline table still holds the entries of granularity 4.
C15_Witness ==
    /\ pc = "add" /\ n = 2 /\ arg.n = 4 /\ i0 = 1
    /\ spline[1][1] = s_curve2(Half)
    /\ spline[1][3] = s_curve2(<<3, 4>>)
    /\ spline[1][3] # spline[1][1]

\* The dot product of a gradient with an offset.
Dot(g, dx, dy) == RAdd(RMul(g[1], dx), RMul(g[2], dy))

\* The classic per-point formula for the point (ii, jj) of the cell with
\* corner (X, Y) at granularity g.
ClassicNoise(X, Y, g, ii, jj) ==
    LET ti  == Norm(ii, g)
        tj  == Norm(jj, g)
        g00 == Gradient(X, Y)
        g01 == Gradient(X, Y + 1)
        g10 == Gradient(X + 1, Y)
        g11 == Gradient(X + 1, Y + 1)
    IN  lerp(s_curve2(ti),
             lerp(s_curve2(tj), Dot(g00, tj, ti), Dot(g01, RSub(tj, One), ti)),
             lerp(s_curve2(tj), Dot(g10, tj, RSub(ti, One)),
                  Dot(g11, RSub(tj, One), RSub(ti, One))))

\* C16: once the tables of a subcell with corner (X, Y) are built, for all
\* 0 <= i, j < n getNoise(i, j) read from the tables equals the classic
\* formula lerp(s(i/n), lerp(s(j/n), g00.(j/n, i/n), g01.(j/n - 1, i/n)),
\* lerp(s(j/n), g10.(j/n, i/n - 1), g11.(j/n - 1, i/n - 1))), gab the gradient
\* of corner (X+a, Y+b), in both variants.
C16_AmortizedIsClassic ==
    (pc \in {"first", "add"} /\ (i0 > 0 \/ j0 > 0)) =>
        LET X == x + LastSubcell[1]
            Y == y + LastSubcell[2]
        IN  \A run \in Runs : \A ii \in 0 .. n - 1 : \A jj \in 0 .. n - 1 :
               getNoise(tab[run], spline[run], ii, jj) = ClassicNoise(X, Y, n, ii, jj)

\* Tables of granularity 4 whose noise differs between (1, 2) and (2, 1).
C16_Witness ==
    /\ pc = "first" /\ n = 4 /\ (i0 > 0 \/ j0 > 0)
    /\ getNoise(tab[1], spline[1], 1, 2) # getNoise(tab[1], spline[1], 2, 1)
    /\ getNoise(tab[1], spline[1], 1, 2) = ClassicNoise(x, y, 4, 1, 2)
    /\ getNoise(tab[1], spline[1], 1, 2) # Zero

\* ------------------------------------------------ claims on the spline table
RECURSIVE RPow(_, _)
RPow(t, e) == IF e = 0 THEN One ELSE RMul(t, RPow(t, e - 1))

\* 6t^5 - 15t^4 + 10t^3
Quintic(t) ==
    RAdd(RSub(RMul(RInt(6), RPow(t, 5)), RMul(RInt(15), RPow(t, 4))),
         RMul(RInt(10), RPow(t, 3)))

ScaledBy(t, u, m, g) == \A e \in 0 .. g - 1 : t[e] = RMul(m, u[e])

\* C18: for the same (x0, y0, n, seed) each edge table the terrain generator
\* fills is the table the unit-magnitude generator fills multiplied by the
\* magnitude of its corner: uax, uay by m00; vax, vay by m01; ubx, uby by
\* m10; vbx, vby by m11; the directions hash with the base seed; a magnitude
\* of 1 leaves a table that of the unit-magnitude generator.
C18_TerrainScalesUnit ==
    (pc \in {"first", "add"} /\ (i0 > 0 \/ j0 > 0) /\ arg.terrain) =>
        LET X   == x + LastSubcell[1]
            Y   == y + LastSubcell[2]
            u   == initEdgeTables(JunkTables(arg.n, 0), arg.seed, X, Y, n)
            m00 == Magnitude(arg.seed, arg.omega, X, Y)
            m01 == Magnitude(arg.seed, arg.omega, X, Y + 1)
            m10 == Magnitude(arg.seed, arg.omega, X + 1, Y)
            m11 == Magnitude(arg.seed, arg.omega, X + 1, Y + 1)
        IN  \A run \in Runs :
              /\ ScaledBy(tab[run].uax, u.uax, m00, n)
              /\ ScaledBy(tab[run].uay, u.uay, m00, n)
              /\ ScaledBy(tab[run].vax, u.vax, m01, n)
              /\ ScaledBy(tab[run].vay, u.vay, m01, n)
              /\ ScaledBy(tab[run].ubx, u.ubx, m10, n)
              /\ ScaledBy(tab[run].uby, u.uby, m10, n)
              /\ ScaledBy(tab[run].vbx, u.vbx, m11, n)
              /\ ScaledBy(tab[run].vby, u.vby, m11, n)
              \* multiplying by the magnitude 1 gives the unit table itself
              /\ ScaledBy(u.uax, u.uax, One, n) /\ ScaledBy(u.uay, u.uay, One, n)
              /\ ScaledBy(u.vax, u.vax, One, n) /\ ScaledBy(u.vay, u.vay, One, n)
              /\ ScaledBy(u.ubx, u.ubx, One, n) /\ ScaledBy(u.uby, u.uby, One, n)
              /\ ScaledBy(u.vbx, u.vbx, One, n) /\ ScaledBy(u.vby, u.vby, One, n)

\* A terrain subcell whose corners (X, Y+1) and (X+1, Y) have different
\* magnitudes, neither of them 1, and tables that differ from the unit ones.
C18_Witness ==
    /\ pc \in {"first", "add"} /\ (i0 > 0 \/ j0 > 0) /\ arg.terrain
    /\ n >= 2
    /\ LET X == x + LastSubcell[1]
           Y == y + LastSubcell[2]
           u == initEdgeTables(JunkTables(arg.n, 0), arg.seed, X, Y, n)
       IN  /\ Magnitude(arg.seed, arg.omega, X, Y + 1)
                # Magnitude(arg.seed, arg.omega, X + 1, Y)
           /\ tab[1].vay[1] # u.vay[1]
           /\ tab[1].uby[0] # u.uby[0]
           /\ tab[1].vay[1] # Zero /\ tab[1].uby[0] # Zero

\* C19: for every seed s given to the constructor the direction seed s, the
\* magnitude seed s + 9999 and the tail-selection seed s + 314159, taken
\* modulo the width of unsigned int, are pairwise distinct, also when an
\* addition wraps around.
C19_SeedsDistinct ==
    (hpc = "returned" /\ harg.fn = "CTerrainGenerator") =>
        /\ hret.seed = harg.s
        /\ hret.seed1 \in 0 .. SeedModulus - 1
        /\ hret.seed2 \in 0 .. SeedModulus - 1
        /\ (hret.seed1 - harg.s - 9999) % SeedModulus = 0
        /\ (hret.seed2 - harg.s - 314159) % SeedModulus = 0
        /\ hret.seed # hret.seed1
        /\ hret.seed # hret.seed2
        /\ hret.seed1 # hret.seed2

\* Both additions wrapped around: s + 9999 is exactly the modulus.
C19_Witness ==
    /\ hpc = "returned" /\ harg.fn = "CTerrainGenerator"
    /\ harg.s = SeedModulus - 9999
    /\ hret.seed1 = 0 /\ hret.seed2 = 314159 - 9999

\* ------------------------------------------------ claims on the hash functions
\* The selection between the two distributions for a tail multiplier w that
\* is already in [0, 1].
Mixture(hx, hy, m, w) ==
    IF RLt(UniformHash(hy, m), w) THEN UniformHash(hx, m) ELSE ExpHash1(hx, m)

\* C8: every value ExpHash(x, y, m, omega) and ExpRand() returns is strictly
\* greater than 0 and strictly less than 1.
C8_StrictlyInsideUnit ==
    hpc = "returned" => RLt(Zero, hret) /\ RLt(hret, One)

\* C9: ExpHash with omega < 0 returns what it returns with omega = 0, with
\* omega > 1 what it returns with omega = 1, and every call returns a number.
C9_OmegaClamped ==
    (hpc = "returned" /\ harg.fn = "ExpHash") =>
        /\ hret[1] \in Int /\ hret[2] \in Nat \ {0}
        /\ RLt(harg.omega, Zero) => hret = Mixture(harg.x, harg.y, MaxHash, Zero)
        /\ RLt(One, harg.omega) => hret = Mixture(harg.x, harg.y, MaxHash, One)

\* A call with omega = 2 whose y hashes to exactly 1.0, so that the clamp to 1
\* decides the branch, and a call with omega = -1.
C9_Witness ==
    /\ hpc = "returned" /\ harg.fn = "ExpHash"
    /\ \/ /\ harg.omega = Two
          /\ UniformHash(harg.y, MaxHash) = One
          /\ hret = ExpHash1(harg.x, MaxHash)
          /\ hret # UniformHash(harg.x, MaxHash)
       \/ /\ harg.omega = RInt(-1)
          /\ hret = ExpHash1(harg.x, MaxHash)
          /\ hret # UniformHash(harg.x, MaxHash)

\* C10: ExpHash(x, y, m, omega) is UniformHash(x, m) exactly when
\* UniformHash(y, m) < omega (clamped) and ExpHash(x, m) otherwise; with
\* omega = 0 it is ExpHash(x, m) for every y, with omega = 1 it is
\* UniformHash(x, m) for every y.
C10_MixtureSelection ==
    (hpc = "returned" /\ harg.fn = "ExpHash") =>
        /\ hret = Mixture(harg.x, harg.y, MaxHash, clip(harg.omega, Zero, One))
        /\ harg.omega = Zero => hret = ExpHash1(harg.x, MaxHash)
        /\ harg.omega = One => hret = UniformHash(harg.x, MaxHash)
\* C20: for every max >= 0 and every 0 <= x <= max, UniformHash(x, max) is
\* (x + 1)/(max + 2), strictly greater than 0 and strictly less than 1, and
\* strictly increasing in x.
C20_UniformHashRange ==
    (hpc = "returned" /\ harg.fn = "UniformHash") =>
        /\ hret = Norm(harg.x + 1, harg.max + 2)
        /\ RLt(Zero, hret) /\ RLt(hret, One)
        /\ harg.x > 0 => RLt(UniformHash(harg.x - 1, harg.max), hret)

\* -------------------------------------------------- claims on RunExperiment
RECURSIVE SumBins(_, _)
SumBins(d, b) == IF b < 0 THEN 0 ELSE d[b] + SumBins(d, b - 1)

\* C21: in RunExperiment every sample falls in one of the GRANULARITY bins:
\* the discrete index of every sample lies in [0, GRANULARITY), neither miss
\* counter ever leaves 0, and the bin counts sum to the number of samples taken
\* (to n once the function has returned).
C21_EverySampleBinned ==
    (harg.fn = "RunExperiment" /\ hpc # "call") =>
        /\ 0 <= hret.sample /\ hret.sample < GRANULARITY
        /\ hret.g_nMissedSmall = 0 /\ hret.g_nMissedLarge = 0
        /\ SumBins(hret.g_nDistribution, GRANULARITY - 1) = hret.i
        /\ hpc = "returned" => hret.i = harg.n

\* The same on the builds whose int is wider than RAND_MAX needs.
C21_BinnedWhereIntIsWide ==
    (harg.fn = "RunExperiment" /\ hpc # "call" /\ INT_MAX(harg.intbits) > RAND_MAX)
        => /\ 0 <= hret.sample /\ hret.sample < GRANULARITY
           /\ hret.g_nMissedSmall = 0 /\ hret.g_nMissedLarge = 0
           /\ SumBins(hret.g_nDistribution, GRANULARITY - 1) = hret.i
           /\ hpc = "returned" => hret.i = harg.n

\* Samples at both ends of the range were binned: 1.0 in the last bin, a
\* sample below 1/(GRANULARITY - 1) in the first.
C21_ExtremesBinned ==
    /\ harg.fn = "RunExperiment" /\ hpc = "returned" /\ harg.n = 2
    /\ hret.g_nDistribution[GRANULARITY - 1] = 1
    /\ hret.g_nDistribution[0] = 1
    /\ hret.g_fMax = One

\* ---------------------------------------------------- claims on the analyzer
\* C22: for all 0 <= x, y < ARRAYSIZE, ht(x, y) and the good-data test read
\* the element at row-major position x*ARRAYSIZE + y of the packed array, the
\* elevation of point (x, y) as the packer wrote it, and the unsigned int
\* index arithmetic never wraps modulo 2^32.
C22_ReadsPointXY ==
    (harg.fn \in {"ht", "ProcessSlopeData"} /\ hpc = "returned") =>
        /\ hret.index = PackedPosition(harg.x, harg.y)
        /\ hret.read = <<harg.x, harg.y>>
        /\ Position(harg.x, harg.y)[1] < Limb

\* The same for the rows whose last element lies within 2^UIntBits elements.
C22_ReadsPointXYInLowRows ==
    (harg.fn \in {"ht", "ProcessSlopeData"} /\ hpc = "returned"
        /\ Position(harg.x, ARRAYSIZE - 1)[1] < Limb) =>
        /\ hret.index = PackedPosition(harg.x, harg.y)
        /\ hret.read = <<harg.x, harg.y>>

\* ht(53688, 0) reads the element of point (0, 72704).
C22_WrappedRead ==
    /\ harg.fn = "ht" /\ hpc = "returned"
    /\ harg.x = 53688 /\ harg.y = 0
    /\ hret.read = <<0, 72704>>

\* ------------------------------------------------ initPerlin2D (perlin.cpp)
B == 5      \* size of the permutation table (the code: 0x100)

\* swap(x, y) on the entries a and b of the table t (a = b: the same entry).
swapNoTemp(t, a, b) == [c \in DOMAIN t |-> IF c = a THEN t[b] ELSE t[c]]

swap(t, a, b) ==
    LET kk == t[a]
        t1 == [t EXCEPT ![a] = t[b]]
    IN  [t1 EXCEPT ![b] = kk]

\* Perlin's table before initPerlin2D: static, zero-initialised.  hret.i is
\* the loop counter, hret.j the index rand() % (i + 1) of the last swap and
\* hret.at the counter at that swap.
PInit ==
    /\ hpc = "call"
    /\ harg = [fn |-> "initPerlin2D"]
    /\ hret = [p |-> [c \in 0 .. B - 1 |-> 0], i |-> 0, j |-> 0, at |-> 0]
    /\ GeneratorIdle

\* The loops before the shuffle: the gradients g2 (which touch neither p nor
\* the counter) and the identity permutation.
IdentityPermutation ==
    /\ hpc = "call" /\ harg.fn = "initPerlin2D"
    /\ hret' = [p |-> [c \in 0 .. B - 1 |-> c], i |-> B - 1, j |-> 0, at |-> 0]
    /\ hpc' = "shuffle"
    /\ UNCHANGED harg
    /\ UNCHANGED genVars

\* One step of the shuffle loop: rv is the value rand() returns.
Transpose ==
    /\ hpc = "shuffle" /\ hret.i > 0
    /\ \E rv \in 0 .. RAND_MAX :
         LET jj == rv % (hret.i + 1)
         IN  hret' = [p |-> swap(hret.p, hret.i, jj), i |-> hret.i - 1,
                      j |-> jj, at |-> hret.i]
    /\ UNCHANGED <<hpc, harg>>
    /\ UNCHANGED genVars

\* The end of the shuffle; the magnitude table written after it does not
\* touch p.
PerlinReturn ==
    /\ hpc = "shuffle" /\ hret.i <= 0
    /\ hpc' = "returned"
    /\ UNCHANGED <<harg, hret>>
    /\ UNCHANGED genVars

PNext == IdentityPermutation \/ Transpose \/ PerlinReturn

SpecPerlin == PInit /\ [][PNext]_vars

\* C23: initPerlin2D leaves p[0..B-1] a permutation of 0..B-1: p is a
\* permutation after the identity fill and after every step of the shuffle,
\* whatever rand() returns, and every swap index rand() % (i + 1) lies in
\* [0, i].
C23_PermutationKept ==
    (harg.fn = "initPerlin2D" /\ hpc \in {"shuffle", "returned"}) =>
        /\ DOMAIN hret.p = 0 .. B - 1
        /\ {hret.p[c] : c \in 0 .. B - 1} = 0 .. B - 1
        /\ 0 <= hret.j /\ hret.j <= hret.at

\* The shuffle has returned the reversed table, its last step having swapped
\* an entry with itself.
C23_Witness ==
    /\ harg.fn = "initPerlin2D" /\ hpc = "returned"
    /\ hret.p = [c \in 0 .. B - 1 |-> B - 1 - c]
    /\ hret.at = 1 /\ hret.j = 1

\* ------------------------------------------------- claims on memory safety
\* The buffer entries getNoise(n, i0, j0, cell) and addNoise touch.
CellAccesses(gran, a0, b0) ==
    {<<a0 + a, b0 + b>> : a \in 0 .. gran - 1, b \in 0 .. gran - 1}

\* The table entries FillUp(t, s, n) and FillDn(t, s, n) touch.
FillUpAccesses(gran) == {0} \cup UNION {{a, a - 1} : a \in 1 .. gran - 1}
FillDnAccesses(gran) == {gran - 1} \cup UNION {{a, a + 1} : a \in 0 .. gran - 2}

\* The table entries initSplineTable(n) writes and getNoise(i, j) reads for
\* 0 <= i, j < n.
SplineAccesses(gran) == 0 .. gran - 1
NoiseAccesses(gran) == UNION {{a, b} : a \in 0 .. gran - 1, b \in 0 .. gran - 1}

\* C24: in generate(x, y, m0, m1, N, cell) with an N x N buffer and tables of
\* N entries, every buffer access cell[i0*n + i][j0*n + j] has both indices in
\* [0, N), with n*r <= N at every octave, and every access to the spline table
\* and to the eight edge tables has its index in [0, n), n not above the size
\* of the tables.
C24_MemorySafe ==
    \A run \in Runs :
        (pc \in {"first", "add"}) =>
            /\ n >= 1 /\ n * r <= arg.n
            /\ SplineAccesses(n) \subseteq DOMAIN spline[run]
            /\ i0 < r =>
                /\ \A a \in CellAccesses(n, i0 * n, j0 * n) :
                      /\ a[1] \in DOMAIN cell[run]
                      /\ a[2] \in DOMAIN cell[run][a[1]]
                      /\ 0 <= a[1] /\ a[1] < arg.n /\ 0 <= a[2] /\ a[2] < arg.n
                /\ \A t \in DOMAIN tab[run] :
                      /\ FillUpAccesses(n) \cup FillDnAccesses(n) \cup NoiseAccesses(n)
                            \subseteq 0 .. n - 1
                      /\ 0 .. n - 1 \subseteq DOMAIN tab[run][t]

\* The last subcell of an octave of granularity 1 in a buffer whose side the
\* subcell count does not divide.
C24_Witness ==
    /\ pc = "add" /\ arg.n = MaxSize /\ n = 1 /\ r = 4
    /\ i0 = r - 1 /\ j0 = r - 1

\* ---------------------------------------------------- claims on the tiling
\* The subcells (i0, j0) of the octave being composited, and those the loops
\* have finished.
Subcells == {<<a, b>> : a \in 0 .. r - 1, b \in 0 .. r - 1}
SubcellsDone == {s \in Subcells : s[1] * r + s[2] < i0 * r + j0}

\* The entries of subcell s, and the entries the octave has written so far.
SubcellEntries(s) == CellAccesses(n, s[1] * n, s[2] * n)
Written == UNION {SubcellEntries(s) : s \in SubcellsDone}

\* N is divisible by the subcell count of every octave up to the current one.
ExactTiling == arg.m0 >= 1 /\ n >= 1 /\ n * r = arg.n

\* C25: when N is divisible by 2^(m0-1+k) for every composited octave k, the
\* subcells of each octave are pairwise disjoint and cover the whole N x N
\* buffer, so every entry is assigned exactly once by the first octave and
\* incremented exactly once by each later octave, and no entry keeps a value
\* it held before the call.
C25_ExactTiling ==
    /\ (pc \in {"first", "add"} /\ ExactTiling) =>
          /\ \A s \in Subcells : \A t \in Subcells :
                s # t => SubcellEntries(s) \cap SubcellEntries(t) = {}
          /\ UNION {SubcellEntries(s) : s \in Subcells} = Buffer \X Buffer
          /\ \A run \in Runs : \A I \in Buffer : \A J \in Buffer :
                cell[run][I][J] =
                    IF <<I, J>> \in Written THEN OctaveSum(OctIndex, I, J)
                    ELSE IF OctIndex = 0 THEN RInt(junk[run])
                    ELSE OctaveSum(OctIndex - 1, I, J)
    /\ (pc = "done" /\ ExactTiling /\ ~Degenerate) =>
          \A run \in Runs : \A I \in Buffer : \A J \in Buffer :
              /\ cell[run][I][J] = OctaveSum(k - arg.m0, I, J)
              /\ cell[run][I][J] # RInt(junk[run])

\* The last octave of three over a 4 x 4 buffer, at granularity 1, with some
\* of its sixteen subcells still to be added.
C25_Witness ==
    /\ pc = "add" /\ ExactTiling /\ arg.n = 4 /\ arg.m0 = 1
    /\ n = 1 /\ r = 4 /\ i0 = 2 /\ j0 = 1

\* -------------------------------------------------- claims on one subcell
\* The tables of the subcell with the hashes of the corners (x0+1, y0) and
\* (x0+1, y0+1) replaced by c10, c11, and of (x0, y0+1), (x0+1, y0+1) by
\* c01, c11.
OtherFarRow(c10, c11) ==
    FillEdgeTables(JunkTables(harg.n, -3), harg.b00, harg.b01, c10, c11, harg.n)
OtherFarColumn(c01, c11) ==
    FillEdgeTables(JunkTables(harg.n, -3), harg.b00, c01, harg.b10, c11, harg.n)

\* C26: within one octave the value getNoise(0, j) on a subcell's i = 0 edge
\* depends only on the gradients of the corners (x0, y0) and (x0, y0+1), and
\* getNoise(i, 0) only on those of (x0, y0) and (x0+1, y0); the gradients of
\* the two opposite corners have no effect on them, for all 0 <= i, j < n.
C26_EdgeValuesLocal ==
    (harg.fn = "getNoise" /\ hpc = "returned") =>
        \A c \in EdgeHashes : \A d \in EdgeHashes : \A a \in 0 .. harg.n - 1 :
            /\ getNoise(OtherFarRow(c, d), hret.spline, 0, a) = hret.noise[0][a]
            /\ getNoise(OtherFarColumn(c, d), hret.spline, a, 0) = hret.noise[a][0]

\* A subcell whose interior value does change with the opposite corners.
C26_Witness ==
    /\ harg.fn = "getNoise" /\ hpc = "returned" /\ harg.n = MaxEdge
    /\ harg.b00 # harg.b10 /\ harg.b00 # harg.b01
    /\ \E c \in EdgeHashes : \E d \in EdgeHashes :
          /\ getNoise(OtherFarRow(c, d), hret.spline, 1, 1) # hret.noise[1][1]
          /\ getNoise(OtherFarColumn(c, d), hret.spline, 1, 1) # hret.noise[1][1]

\* ------------------------------------------------- claims on the sentinel
\* The value p + q*sqrt(2) of v = [rat |-> p, root |-> q] is 1.
IsOne(v) ==
    LET d == RSub(One, v.rat)
    IN  IF v.root = Zero THEN d = Zero
        ELSE /\ RMul(Two, RMul(v.root, v.root)) = RMul(d, d)
             /\ RLt(Zero, v.root) <=> RLt(Zero, d)

\* C27: no non-degenerate call of generate returns 1.0, the value of the
\* degenerate bail-out: sqrt(2)/(2 - 0.5^a) differs from 1 for every number a
\* of added octaves, equivalently (2^(a+1) - 1)^2 # 2 * 4^a, so the return
\* value alone tells an untouched buffer from a generated one.
C27_SentinelUnambiguous ==
    pc = "done" =>
        /\ Degenerate <=> IsOne(ret)
        /\ ~Degenerate =>
              LET pw == scale[2]    \* scale = 1/2^a
              IN  /\ scale[1] = 1 /\ IsPow2(pw)
                  /\ (2 * pw - 1) * (2 * pw - 1) # 2 * pw * pw
                  /\ ret # RatOne

\* Non-degenerate calls returned after adding one octave: sqrt(2)/1.5, the
\* return value closest to 1.
C27_Witness ==
    /\ pc = "done" /\ ~Degenerate /\ scale = Half
    /\ ret = [rat |-> Zero, root |-> Norm(2, 3)]

\* ------------------------------------------------ claims on the edge ramps
\* i * s / n and -(n - i) * s / n.
RampUp(s, gran, a) == RDiv(RMul(RInt(a), s), RInt(gran))
RampDn(s, gran, a) == RNeg(RDiv(RMul(RInt(gran - a), s), RInt(gran)))

\* C28: for every n >= 1 and corner component s, FillUp(t, s, n) leaves
\* t[i] = i*s/n for all 0 <= i < n, starting from t[0] = 0, and FillDn(t, s, n)
\* leaves t[i] = -(n - i)*s/n, ending at t[n-1] = -s/n, so FillDn's table is
\* FillUp's table minus s at every index; each writes exactly the n entries
\* t[0..n-1].
C28_EdgeRamps ==
    (harg.fn \in {"FillUp", "FillDn"} /\ hpc = "returned") =>
        LET before == JunkTable(harg.size, harg.junk)
        IN  /\ DOMAIN hret = 0 .. harg.size - 1
            /\ \A a \in 0 .. harg.size - 1 :
                  a >= harg.n => hret[a] = before[a]
            /\ harg.fn = "FillUp" =>
                  /\ hret[0] = Zero
                  /\ \A a \in 0 .. harg.n - 1 : hret[a] = RampUp(harg.s, harg.n, a)
            /\ harg.fn = "FillDn" =>
                  /\ hret[harg.n - 1] = RDiv(RNeg(harg.s), RInt(harg.n))
                  /\ \A a \in 0 .. harg.n - 1 :
                        /\ hret[a] = RampDn(harg.s, harg.n, a)
                        /\ hret[a] = RSub(FillUp(before, harg.s, harg.n)[a], harg.s)

\* FillDn has filled the first n entries of a larger table for a component
\* that is neither 0 nor 1, with n > 2.
C28_Witness ==
    /\ harg.fn = "FillDn" /\ hpc = "returned"
    /\ harg.s = Norm(-3, 5) /\ harg.n = 3 /\ harg.size = MaxFill
    /\ hret[0] = Norm(3, 5) /\ hret[2] = Norm(1, 5)
    /\ hret[3] = RInt(harg.junk)

====
